---- MODULE Spec2Model ----
(***************************************************************************)
(* iconify-import-svg: importSvgCollection and importSvgCollections        *)
(* (src/src/index.ts, lines 1-234) as a state machine.                     *)
(*                                                                         *)
(* Strings that the code inspects character by character (file names,     *)
(* paths, collection keys, the prefix option, colour values) are           *)
(* sequences of one-character strings.                                     *)
(***************************************************************************)
EXTENDS Integers, Sequences, FiniteSets, TLC

VARIABLES
    world,          \* the file system: listings, documents, unreadable directories
    options,        \* the options object of the call
    pc,             \* position of the call
    stack,          \* pending traverse(dir) calls, next one first
    result,         \* findSvgDirectories: result
    idx,            \* importSvgCollections: index of `dir` in svgDirs
    iconSet,        \* the IconSet being processed: name -> icon
    todo,           \* forEachSync: names still to visit
    svg,            \* the detached SVG instance of the current icon
    stages,         \* stages run so far on the current icon
    iconsToRemove,  \* processIconSet: iconsToRemove
    collections,    \* importSvgCollections: own properties of collections
    proto,          \* importSvgCollections: prototype of collections
    returned,       \* importSvgCollection: the returned record
    log             \* history: one entry per exported icon set

vars == <<world, options, pc, stack, result, idx, iconSet, todo, svg, stages,
          iconsToRemove, collections, proto, returned, log>>

----------------------------------------------------------------------------
(* Bounds *)

\* Largest number of shapes in one icon document.
MaxShapes == 2

----------------------------------------------------------------------------
(* Character sequences *)

SEP == <<"/">>
DASH == <<"-">>
DOT_SVG == <<".", "s", "v", "g">>

\* String.prototype.endsWith
EndsWith(s, suffix) ==
    /\ Len(s) >= Len(suffix)
    /\ SubSeq(s, Len(s) - Len(suffix) + 1, Len(s)) = suffix

\* Array.prototype.join: the parts with sep between them; [""] joins to "".
RECURSIVE Join(_, _)
Join(parts, sep) ==
    IF parts = <<>> THEN <<>>
    ELSE IF Len(parts) = 1 THEN parts[1]
    ELSE parts[1] \o sep \o Join(Tail(parts), sep)

\* String.prototype.split on a one-character separator: "" splits to [""].
RECURSIVE SplitFrom(_, _, _)
SplitFrom(s, sepChar, cur) ==
    IF s = <<>> THEN <<cur>>
    ELSE IF Head(s) = sepChar THEN <<cur>> \o SplitFrom(Tail(s), sepChar, <<>>)
    ELSE SplitFrom(Tail(s), sepChar, Append(cur, Head(s)))

Split(s, sep) == SplitFrom(s, sep[1], <<>>)

\* path.join(dir, name): dir is a sequence of segments.
PathJoin(dir, name) == Append(dir, name)

\* path.relative(from, to) for a `to` at or below `from`: the segments of
\* `to` below `from`, joined with path.sep.
PathRelative(from, to) == Join(SubSeq(to, Len(from) + 1, Len(to)), SEP)

----------------------------------------------------------------------------
(* Colours: @iconify/utils stringToColor, compareColors, isEmptyColor *)

\* The colour values of the icon documents, as the strings they are.
Black == <<"b", "l", "a", "c", "k">>
White == <<"w", "h", "i", "t", "e">>
None == <<"n", "o", "n", "e">>
Transparent == <<"t", "r", "a", "n", "s", "p", "a", "r", "e", "n", "t">>
CurrentColor == <<"c", "u", "r", "r", "e", "n", "t", "C", "o", "l", "o", "r">>
Red == <<"r", "e", "d">>
Bogus == <<"b", "o", "g", "u", "s">>
Hex000 == <<"#", "0", "0", "0">>
Hex000000 == <<"#", "0", "0", "0", "0", "0", "0">>
Hex010101 == <<"#", "0", "1", "0", "1", "0", "1">>
HexFff == <<"#", "f", "f", "f">>
HexFFFFFF == <<"#", "F", "F", "F", "F", "F", "F">>
HexF79009 == <<"#", "F", "7", "9", "0", "0", "9">>
Hex667085 == <<"#", "6", "6", "7", "0", "8", "5">>

ColorStrings ==
    {Black, White, None, Transparent, CurrentColor, Bogus, Hex000, Hex000000,
     Hex010101, HexFff, HexFFFFFF, HexF79009, Hex667085}

\* A parsed colour; alpha is counted in 255ths.  NoColor is null.
NoColor == [type |-> "null", r |-> 0, g |-> 0, b |-> 0, alpha |-> 0]

Rgba(r, g, b, alpha) == [type |-> "rgb", r |-> r, g |-> g, b |-> b, alpha |-> alpha]

Rgb(r, g, b) == Rgba(r, g, b, 255)

ColorKeyword(t) == [type |-> t, r |-> 0, g |-> 0, b |-> 0, alpha |-> 0]

HexLower == <<"0", "1", "2", "3", "4", "5", "6", "7", "8", "9", "a", "b", "c", "d", "e", "f">>
HexUpper == <<"0", "1", "2", "3", "4", "5", "6", "7", "8", "9", "A", "B", "C", "D", "E", "F">>

isHexDigit(c) == \E i \in 1..16 : HexLower[i] = c \/ HexUpper[i] = c

hexToNumber(c) == (CHOOSE i \in 1..16 : HexLower[i] = c \/ HexUpper[i] = c) - 1

\* One colour channel from a single digit (doubled) or from two digits.
Channel1(d) == 17 * hexToNumber(d)
Channel2(d1, d2) == 16 * hexToNumber(d1) + hexToNumber(d2)

\* A colour in hexadecimal notation: 3 or 6 digits, 4 or 8 with alpha.
fromHex(digits) ==
    IF \E i \in 1..Len(digits) : ~isHexDigit(digits[i]) THEN NoColor
    ELSE CASE Len(digits) = 3 ->
                 Rgb(Channel1(digits[1]), Channel1(digits[2]), Channel1(digits[3]))
           [] Len(digits) = 4 ->
                 Rgba(Channel1(digits[1]), Channel1(digits[2]), Channel1(digits[3]),
                      Channel1(digits[4]))
           [] Len(digits) = 6 ->
                 Rgb(Channel2(digits[1], digits[2]), Channel2(digits[3], digits[4]),
                     Channel2(digits[5], digits[6]))
           [] Len(digits) = 8 ->
                 Rgba(Channel2(digits[1], digits[2]), Channel2(digits[3], digits[4]),
                      Channel2(digits[5], digits[6]), Channel2(digits[7], digits[8]))
           [] OTHER -> NoColor

\* stringToColor: the parsed colour, NoColor (null) when it cannot be parsed.
\* Of the colour names only those of the documents above are listed.
stringToColor(str) ==
    IF str = None THEN ColorKeyword("none")
    ELSE IF str = Transparent THEN ColorKeyword("transparent")
    ELSE IF str = CurrentColor THEN ColorKeyword("current")
    ELSE IF str # <<>> /\ Head(str) = "#" THEN fromHex(Tail(str))
    ELSE IF str = Black THEN Rgb(0, 0, 0)
    ELSE IF str = White THEN Rgb(255, 255, 255)
    ELSE IF str = Red THEN Rgb(255, 0, 0)
    ELSE NoColor

\* compareColors: exact equality of the parsed values.
compareColors(c1, c2) == c1 = c2

\* isEmptyColor: 'none' or 'transparent'.
isEmptyColor(c) == c.type \in {"none", "transparent"}

blackColor == stringToColor(Black)
whiteColor == stringToColor(White)

\* The callback comparing with black by distance instead of exactly.
ColorCallbackNearBlack(colorStr) ==
    LET color == stringToColor(colorStr) IN
    IF color = NoColor THEN [act |-> "throw", value |-> colorStr]
    ELSE IF isEmptyColor(color) THEN [act |-> "value", value |-> colorStr]
    ELSE IF color.type = "rgb" /\ color.r + color.g + color.b <= 3
        THEN [act |-> "value", value |-> CurrentColor]
    ELSE IF compareColors(color, whiteColor)
        THEN [act |-> "remove", value |-> colorStr]
    ELSE [act |-> "value", value |-> colorStr]

\* The callback handed to parseColors.  Result: what it does ("throw",
\* "remove", or "value") and the colour string the attribute gets.  A parsed
\* colour handed back unchanged leaves the attribute's string as it was.
ColorCallback(colorStr) ==
    LET color == stringToColor(colorStr) IN
    IF color = NoColor THEN [act |-> "throw", value |-> colorStr]
    ELSE IF isEmptyColor(color) THEN [act |-> "value", value |-> colorStr]
    ELSE IF compareColors(color, blackColor)
        THEN [act |-> "value", value |-> CurrentColor]
    ELSE IF compareColors(color, whiteColor)
        THEN [act |-> "remove", value |-> colorStr]
    ELSE [act |-> "value", value |-> colorStr]

----------------------------------------------------------------------------
(* Icon documents and the @iconify/tools stages *)

\* One shape of a document: its paint (<<>> when the shape has no paint
\* attribute), and whether the shape is the content of a clipPath rather
\* than drawn geometry.
Shape(color, clip) == [color |-> color, clip |-> clip]

\* A document: whether it loads as SVG, the stage whose library call throws
\* for it ("none" when no call does), and its shapes in document order.
Doc(parse, fail, shapes) == [parse |-> parse, fail |-> fail, shapes |-> shapes]

NoDoc == Doc(FALSE, "none", <<>>)

\* The traversal of parseColors: the callback is called once for every
\* colour value of the document, in document order; a throw aborts the
\* traversal, a colour value replaces the attribute's value, 'remove'
\* deletes the shape.  A shape without paint gets defaultColor.  The
\* content of a clipPath is not deleted: the snapshots of test/index.test.ts
\* (thumbs-down, user) keep fill="#fff" inside a clipPath although the
\* callback answers 'remove' for white.
RECURSIVE WalkShapes(_, _)
WalkShapes(shapes, defaultColor) ==
    IF shapes = <<>> THEN [ok |-> TRUE, shapes |-> <<>>]
    ELSE LET s == Head(shapes)
             rest == WalkShapes(Tail(shapes), defaultColor)
         IN  IF s.color = <<>>
                 THEN [ok |-> rest.ok,
                       shapes |-> <<[s EXCEPT !.color = defaultColor]>> \o rest.shapes]
             ELSE LET r == ColorCallback(s.color) IN
                  IF r.act = "throw"
                      THEN [ok |-> FALSE, shapes |-> <<>>]
                  ELSE IF r.act = "remove"
                      THEN IF s.clip
                               THEN [ok |-> rest.ok, shapes |-> <<s>> \o rest.shapes]
                               ELSE rest
                  ELSE [ok |-> rest.ok,
                        shapes |-> <<[s EXCEPT !.color = r.value]>> \o rest.shapes]

\* parseColors(svg, {defaultColor: 'currentColor', callback}): the document
\* is left as it was when the callback throws.  What is left of a document
\* after the traversal is not tested.
parseColors(shapes) ==
    LET w == WalkShapes(shapes, CurrentColor) IN
    IF ~w.ok THEN [ok |-> FALSE, shapes |-> shapes]
    ELSE [ok |-> TRUE, shapes |-> w.shapes]

----------------------------------------------------------------------------
(* The file system *)

FileEntry(name, doc) == [name |-> name, kind |-> "file", doc |-> doc]
DirEntry(name) == [name |-> name, kind |-> "dir", doc |-> NoDoc]
OtherEntry(name) == [name |-> name, kind |-> "other", doc |-> NoDoc]

\* Dirent.isFile() / Dirent.isDirectory()
isFile(entry) == entry.kind = "file"
isDirectory(entry) == entry.kind = "dir"

\* fs.readdirSync(dir, {withFileTypes: true}) of a readable directory.
readdirSync(dir) == world.entries[dir]

\* hasSvgFiles set without the isFile() test.
HasSvgFilesAnyKind(entries) ==
    \E i \in 1..Len(entries) : EndsWith(entries[i].name, DOT_SVG)

\* traverse: hasSvgFiles after the loop over the entries.
HasSvgFiles(entries) ==
    \E i \in 1..Len(entries) :
        isFile(entries[i]) /\ EndsWith(entries[i].name, DOT_SVG)

\* traverse: subdirs after the loop over the entries.
RECURSIVE Subdirs(_, _)
Subdirs(dir, entries) ==
    IF entries = <<>> THEN <<>>
    ELSE LET e == Head(entries) IN
         IF isFile(e) /\ EndsWith(e.name, DOT_SVG)
             THEN Subdirs(dir, Tail(entries))
         ELSE IF isDirectory(e)
             THEN <<PathJoin(dir, e.name)>> \o Subdirs(dir, Tail(entries))
         ELSE Subdirs(dir, Tail(entries))

----------------------------------------------------------------------------
(* importDirectorySync and the IconSet *)

\* The icon name importDirectorySync derives from a file name: the name
\* without its extension.
IconName(fileName) == SubSeq(fileName, 1, Len(fileName) - Len(DOT_SVG))

\* The .svg files importDirectorySync finds in dir, in scan order, those of
\* the subdirectories included when includeSubDirs is set.
RECURSIVE ScanDirectory(_, _)
RECURSIVE ScanEntries(_, _, _)
ScanEntries(dir, entries, includeSubDirs) ==
    IF entries = <<>> THEN <<>>
    ELSE LET e == Head(entries)
             rest == ScanEntries(dir, Tail(entries), includeSubDirs)
         IN  IF isFile(e) /\ EndsWith(e.name, DOT_SVG)
                 THEN <<[dir |-> dir, name |-> e.name, doc |-> e.doc]>> \o rest
             ELSE IF isDirectory(e) /\ includeSubDirs
                 THEN ScanDirectory(PathJoin(dir, e.name), includeSubDirs) \o rest
             ELSE rest

ScanDirectory(dir, includeSubDirs) ==
    ScanEntries(dir, world.entries[dir], includeSubDirs)

\* The directories importDirectorySync has to read.
RECURSIVE ScannedDirs(_, _)
ScannedDirs(dir, includeSubDirs) ==
    {dir} \cup
    IF includeSubDirs /\ dir \notin world.unreadable
        THEN UNION {ScannedDirs(PathJoin(dir, world.entries[dir][i].name), TRUE) :
                        i \in {j \in 1..Len(world.entries[dir]) :
                                   isDirectory(world.entries[dir][j])}}
        ELSE {}

\* The entry an IconSet holds for a loaded file, of type 'icon': its body,
\* the form its markup is in ("source" as loaded), the document's failing
\* stage, and the file it was loaded from.
Icon(file) ==
    [type |-> "icon", body |-> file.doc.shapes, form |-> "source",
     fail |-> file.doc.fail, file |-> PathJoin(file.dir, file.name)]

\* cleanupSVG(svg): inline style expanded to attributes, bad attributes
\* removed.  The paints keep their values.
cleanupSVG(doc) == [doc EXCEPT !.form = "clean"]

\* runSVGO(svg): the markup minimised, path data in shorthand commands.
\* A colour string is byte-identical afterwards (test/index.test.ts keeps
\* "#F79009", "#667085" and "#fff" as written).
runSVGO(doc) == [doc EXCEPT !.form = "optimised"]

\* deOptimisePaths(svg): the path data of a minimised document rewritten
\* into the verbose command set; other markup is left as it is.
deOptimisePaths(doc) ==
    IF doc.form = "optimised" THEN [doc EXCEPT !.form = "compat"] ELSE doc

\* iconSet.toSVG(name): the detached SVG instance of the icon, <<>> (null)
\* when the set has no icon of this name.
toSVG(icons, name) ==
    IF name \in DOMAIN icons /\ icons[name].type = "icon" THEN <<icons[name]>>
    ELSE <<>>

\* Loading the scanned files into an icon set (ignoreImportErrors: 'warn'):
\* a file that does not load as SVG is skipped, a name loaded twice keeps
\* the later file.  names is the set's iteration order.
RECURSIVE LoadFiles(_, _)
LoadFiles(files, set) ==
    IF files = <<>> THEN set
    ELSE LET f == Head(files)
             name == IconName(f.name)
         IN  IF ~f.doc.parse THEN LoadFiles(Tail(files), set)
             ELSE LoadFiles(Tail(files),
                    [icons |-> (name :> Icon(f)) @@ set.icons,
                     names |-> IF name \in DOMAIN set.icons THEN set.names
                               ELSE Append(set.names, name)])

EmptySet == [icons |-> <<>>, names |-> <<>>]

importDirectorySync(dir, includeSubDirs) ==
    LoadFiles(ScanDirectory(dir, includeSubDirs), EmptySet)

\* iconSet.export(): prefix '' and the icons of the set.
Export(icons) == [prefix |-> <<>>, icons |-> icons]

\* iconSet.remove(name) for every name of iconsToRemove.
RemoveAll(icons, names) ==
    [n \in DOMAIN icons \ {names[i] : i \in 1..Len(names)} |-> icons[n]]

----------------------------------------------------------------------------
(* importSvgCollections: the key of a collection *)

PROTO == <<"_", "_", "p", "r", "o", "t", "o", "_", "_">>

\* A plain object: its own properties and its prototype (<<>> while it is
\* Object.prototype, <<v>> once it has been replaced by v).
Object(own, prototype) == [own |-> own, proto |-> prototype]

\* obj[key] = value on a plain object created by {}: the key "__proto__"
\* runs the setter inherited from Object.prototype, which makes value the
\* prototype of obj and creates no own property.
SetProperty(obj, key, value) ==
    IF key = PROTO THEN Object(obj.own, <<value>>)
    ELSE Object((key :> value) @@ obj.own, obj.proto)

\* An optional string option: <<>> when omitted, <<s>> when given.
Truthy(opt) == opt # <<>> /\ opt[1] # <<>>

\* The key taken from the relative path as it is, separators not replaced.
CollectionKeyUnsplit(source, dir, prefix) ==
    LET relativePath == PathRelative(source, dir)
    IN  IF Truthy(prefix) THEN prefix[1] \o DASH \o relativePath ELSE relativePath

\* The key of the scan root being the prefix alone, without the "-".
CollectionKeyTrimmed(source, dir, prefix) ==
    LET relativePath == PathRelative(source, dir)
        pathPrefix == Join(Split(relativePath, SEP), DASH)
    IN  IF Truthy(prefix)
            THEN IF pathPrefix = <<>> THEN prefix[1]
                 ELSE prefix[1] \o DASH \o pathPrefix
        ELSE pathPrefix

CollectionKey(source, dir, prefix) ==
    LET relativePath == PathRelative(source, dir)
        pathPrefix == Join(Split(relativePath, SEP), DASH)
    IN  IF Truthy(prefix) THEN prefix[1] \o DASH \o pathPrefix ELSE pathPrefix

----------------------------------------------------------------------------
(* The calls the model makes: trees, documents and options *)

R == <<"r">>
A == <<"a">>
B == <<"b">>
AB == <<"a", "-", "b">>
X == <<"x", ".", "s", "v", "g">>
Y == <<"y", ".", "s", "v", "g">>
L == <<"l", ".", "s", "v", "g">>
N == <<"n", ".", "t", "x", "t">>
IC == <<"i", "c">>

\* The scan root and the directories a tree may hold below it.
Root == <<R>>
DirA == <<R, A>>
DirAB == <<R, AB>>
DirA_B == <<R, A, B>>
DirProto == <<R, PROTO>>

TreeShapes == {D \in SUBSET {DirA, DirAB, DirA_B} : DirA_B \in D => DirA \in D}

Plain == <<Shape(HexF79009, FALSE)>>
Good == Doc(TRUE, "none", Plain)
Broken == Doc(FALSE, "none", <<>>)
Failing(stage) == Doc(TRUE, stage, Plain)
BadColor == Doc(TRUE, "none", <<Shape(Bogus, FALSE)>>)

\* The files a directory may hold.
FileOpts ==
    { <<>>,
      <<FileEntry(X, Good)>>,
      <<FileEntry(X, Failing("cleanup"))>>,
      <<FileEntry(X, Broken)>>,
      <<FileEntry(N, Good)>>,
      <<OtherEntry(L)>>,
      <<FileEntry(X, Good), FileEntry(Y, Failing("svgo"))>> }

RootFileOpts == { <<>>, <<FileEntry(X, Good)>>, <<FileEntry(N, Good)>> }

Reverse(seq) == [i \in 1..Len(seq) |-> seq[Len(seq) + 1 - i]]

\* The listing of directory d in a tree with directories D: its
\* subdirectories, then its files; reversed when rev.
Listing(d, D, files, rev) ==
    LET subs == SelectSeq(<<PROTO, A, AB, B>>, LAMBDA n : PathJoin(d, n) \in D)
        l == [i \in 1..Len(subs) |-> DirEntry(subs[i])] \o files
    IN  IF rev THEN Reverse(l) ELSE l

World(D, files, unreadable, rev) ==
    [entries |-> [d \in D \cup {Root} |-> Listing(d, D, files[d], rev)],
     unreadable |-> unreadable
    ]

Collections(prefix) ==
    [call |-> "collections", source |-> Root, prefix |-> prefix,
     includeSubDirs |-> <<>>]

Collection(includeSubDirs) ==
    [call |-> "collection", source |-> Root, prefix |-> <<>>,
     includeSubDirs |-> includeSubDirs]

Input(w, o) == [world |-> w, options |-> o]

\* Every tree shape with every choice of files, all readable.
TreeInputs ==
    { Input(World(D, f, {}, FALSE), Collections(p)) :
        D \in TreeShapes,
        f \in {g \in [{Root, DirA, DirAB, DirA_B} -> FileOpts] :
                  g[Root] \in RootFileOpts},
        p \in {<<>>, <<IC>>} }

\* The shapes of a document: up to MaxShapes of them, drawn with any of the
\* colour values or with no paint attribute, or the content of a clipPath.
ShapeOpts ==
    {Shape(c, FALSE) : c \in ColorStrings \cup {<<>>}} \cup
    {Shape(c, TRUE) : c \in {Black, HexFff, Hex667085, Bogus}}

\* A document draws at least one shape.
ShapeSeqs ==
    {sh \in UNION {[1..n -> ShapeOpts] : n \in 1..MaxShapes} :
        \E i \in 1..Len(sh) : ~sh[i].clip}

AllGood ==
    [d \in {Root, DirA, DirAB, DirA_B, DirProto} |-> <<FileEntry(X, Good)>>]

\* One directory with one icon, over every document.
ColorInputs ==
    { Input(World({DirA},
                  [AllGood EXCEPT ![Root] = <<>>,
                                  ![DirA] = <<FileEntry(X, Doc(TRUE, "none", sh))>>],
                  {}, FALSE),
            Collections(<<>>)) :
        sh \in ShapeSeqs }

StageDocs ==
    {Good, Broken, BadColor, Failing("cleanup"), Failing("svgo"), Failing("paths")}

\* One directory with two icons, each failing at some stage or at none,
\* below a root with or without an icon of its own.
StageInputs ==
    { Input(World({DirA},
                  [AllGood EXCEPT ![Root] = rf,
                                  ![DirA] = <<FileEntry(X, d1), FileEntry(Y, d2)>>],
                  {}, FALSE),
            o) :
        d1 \in StageDocs, d2 \in StageDocs,
        rf \in {<<>>, <<FileEntry(X, Good)>>},
        o \in {Collections(<<>>), Collection(<<>>)} }

\* Trees with one unreadable directory, with an empty-string prefix, with
\* reversed listings; and the single-collection call on every tree shape.
OtherInputs ==
    { Input(World(D, AllGood, {u}, FALSE), o) :
        D \in TreeShapes, u \in {Root, DirA, DirAB, DirA_B},
        o \in {Collections(<<>>), Collection(<<>>)} }
    \cup
    { Input(World(D, AllGood, {}, rev), Collections(p)) :
        D \in TreeShapes, rev \in BOOLEAN, p \in {<<>>, << <<>> >>, <<IC>>} }
    \cup
    { Input(World(D, [AllGood EXCEPT ![Root] = rf, ![DirA] = f],
                  {}, FALSE),
            Collection(i)) :
        D \in TreeShapes, rf \in RootFileOpts \cup {<<FileEntry(Y, Good)>>},
        f \in FileOpts,
        i \in {<<>>, <<TRUE>>, <<FALSE>>} }

\* Trees with a directory named __proto__ below the root.
ProtoInputs ==
    { Input(World(D, [AllGood EXCEPT ![Root] = rf, ![DirProto] = f],
                  {}, FALSE),
            Collections(p)) :
        D \in {{DirProto}, {DirProto, DirA}},
        rf \in {<<>>, <<FileEntry(X, Good)>>},
        f \in {<<FileEntry(X, Good)>>, <<FileEntry(X, Failing("cleanup"))>>},
        p \in {<<>>, << <<>> >>, <<IC>>} }

Inputs ==
    TreeInputs \cup ColorInputs \cup StageInputs \cup OtherInputs \cup ProtoInputs

----------------------------------------------------------------------------
(* The state machine *)

\* includeSubDirs defaulting to false when the option is omitted.
IncludeSubDirsDefaultFalse == IF options.includeSubDirs = <<>> THEN FALSE
                              ELSE options.includeSubDirs[1]

\* importSvgCollection: const { source, includeSubDirs = true } = options
IncludeSubDirs == IF options.includeSubDirs = <<>> THEN TRUE
                  ELSE options.includeSubDirs[1]

Init ==
    /\ \E in \in Inputs : world = in.world /\ options = in.options
    /\ pc = IF options.call = "collections" THEN "walk" ELSE "import"
    /\ stack = IF options.call = "collections" THEN <<options.source>> ELSE <<>>
    /\ result = <<>>
    /\ idx = 1
    /\ iconSet = <<>>
    /\ todo = <<>>
    /\ svg = <<>>
    /\ stages = <<>>
    /\ iconsToRemove = <<>>
    /\ collections = <<>>
    /\ proto = <<>>
    /\ returned = <<>>
    /\ log = <<>>

\* findSvgDirectories: one call of traverse(dir), up to its recursive calls.
Traverse ==
    /\ pc = "walk"
    /\ Head(stack) \notin world.unreadable
    /\ LET dir == Head(stack)
           entries == readdirSync(dir)
           rest == Subdirs(dir, entries) \o Tail(stack)
       IN  /\ result' = IF HasSvgFiles(entries) THEN Append(result, dir) ELSE result
           /\ stack' = rest
           /\ pc' = IF rest = <<>> THEN "loop" ELSE "walk"
    /\ UNCHANGED <<world, options, idx, iconSet, todo, svg, stages,
                   iconsToRemove, collections, proto, returned, log>>

\* traverse(dir): readdirSync throws; nothing catches it.
TraverseThrows ==
    /\ pc = "walk"
    /\ Head(stack) \in world.unreadable
    /\ pc' = "thrown"
    /\ UNCHANGED <<world, options, stack, result, idx, iconSet, todo, svg,
                   stages, iconsToRemove, collections, proto, returned, log>>

\* The loop's import with includeSubDirs left at its default, true.
ImportDirWithSubDirs ==
    /\ pc = "loop"
    /\ idx <= Len(result)
    /\ LET set == importDirectorySync(result[idx], TRUE)
       IN  /\ iconSet' = set.icons
           /\ todo' = set.names
    /\ iconsToRemove' = <<>>
    /\ pc' = "each"
    /\ UNCHANGED <<world, options, stack, result, idx, svg, stages,
                   collections, proto, returned, log>>

\* importSvgCollections: the loop's next dir, up to the call of processIconSet.
ImportDir ==
    /\ pc = "loop"
    /\ idx <= Len(result)
    /\ LET set == importDirectorySync(result[idx], FALSE)
       IN  /\ iconSet' = set.icons
           /\ todo' = set.names
    /\ iconsToRemove' = <<>>
    /\ pc' = "each"
    /\ UNCHANGED <<world, options, stack, result, idx, svg, stages,
                   collections, proto, returned, log>>

\* importSvgCollection: importDirectorySync(source, ...), up to processIconSet.
ImportSource ==
    /\ pc = "import"
    /\ ScannedDirs(options.source, IncludeSubDirs) \cap world.unreadable = {}
    /\ LET set == importDirectorySync(options.source, IncludeSubDirs)
       IN  /\ iconSet' = set.icons
           /\ todo' = set.names
    /\ iconsToRemove' = <<>>
    /\ pc' = "each"
    /\ UNCHANGED <<world, options, stack, result, idx, svg, stages,
                   collections, proto, returned, log>>

\* importSvgCollection: importDirectorySync cannot read a directory.
ImportSourceThrows ==
    /\ pc = "import"
    /\ ScannedDirs(options.source, IncludeSubDirs) \cap world.unreadable # {}
    /\ pc' = "thrown"
    /\ UNCHANGED <<world, options, stack, result, idx, iconSet, todo, svg,
                   stages, iconsToRemove, collections, proto, returned, log>>

\* processIconSet: forEachSync visits the next entry.  The callback
\* returns at once for an entry that is not an icon and when
\* iconSet.toSVG(name) gives null; the entry then stays in the set as it is.
ForEachIcon ==
    /\ pc = "each"
    /\ todo # <<>>
    /\ LET name == Head(todo)
           instance == toSVG(iconSet, name)
       IN  IF iconSet[name].type # "icon" \/ instance = <<>>
               THEN /\ todo' = Tail(todo)
                    /\ UNCHANGED <<svg, stages, pc>>
               ELSE /\ svg' = instance
                    /\ stages' = <<>>
                    /\ pc' = "cleanup"
                    /\ UNCHANGED todo
    /\ UNCHANGED <<world, options, stack, result, idx, iconSet,
                   iconsToRemove, collections, proto, returned, log>>

\* A library call of the try block: it throws for a document failing at
\* this stage, else the detached instance becomes the rewritten document
\* and control moves on.
Stage(at, name, next, rewritten) ==
    /\ pc = at
    /\ stages' = Append(stages, name)
    /\ IF svg[1].fail = at
           THEN pc' = "catch" /\ UNCHANGED svg
           ELSE pc' = next /\ svg' = <<rewritten>>
    /\ UNCHANGED <<world, options, stack, result, idx, iconSet, todo,
                   iconsToRemove, collections, proto, returned, log>>

CleanupSVG == Stage("cleanup", "cleanupSVG", "colors", cleanupSVG(svg[1]))

ParseColors ==
    /\ pc = "colors"
    /\ stages' = Append(stages, "parseColors")
    /\ LET r == parseColors(svg[1].body)
       IN  /\ svg' = <<[svg[1] EXCEPT !.body = r.shapes]>>
           /\ pc' = IF r.ok THEN "svgo" ELSE "catch"
    /\ UNCHANGED <<world, options, stack, result, idx, iconSet, todo,
                   iconsToRemove, collections, proto, returned, log>>

\* runSVGO handing the document straight to fromSVG.
RunSVGOSkipsPaths == Stage("svgo", "runSVGO", "store", runSVGO(svg[1]))

RunSVGO == Stage("svgo", "runSVGO", "paths", runSVGO(svg[1]))

DeOptimisePaths == Stage("paths", "deOptimisePaths", "store", deOptimisePaths(svg[1]))

\* iconSet.fromSVG(name, svg): the end of the try block and of the callback.
FromSVG ==
    /\ pc = "store"
    /\ stages' = Append(stages, "fromSVG")
    /\ iconSet' = [iconSet EXCEPT ![Head(todo)] = svg[1]]
    /\ todo' = Tail(todo)
    /\ pc' = "each"
    /\ UNCHANGED <<world, options, stack, result, idx, svg, iconsToRemove,
                   collections, proto, returned, log>>

\* The catch block only logging: the icon is not marked for removal.
CatchKeepsIcon ==
    /\ pc = "catch"
    /\ todo' = Tail(todo)
    /\ pc' = "each"
    /\ UNCHANGED <<world, options, stack, result, idx, iconSet, svg, stages,
                   iconsToRemove, collections, proto, returned, log>>

\* The catch block: the icon is marked for removal, the callback ends.
Catch ==
    /\ pc = "catch"
    /\ iconsToRemove' = Append(iconsToRemove, Head(todo))
    /\ todo' = Tail(todo)
    /\ pc' = "each"
    /\ UNCHANGED <<world, options, stack, result, idx, iconSet, svg, stages,
                   collections, proto, returned, log>>

\* processIconSet: the loop removing the marked icons.
RemoveRejected ==
    /\ pc = "each"
    /\ todo = <<>>
    /\ iconSet' = RemoveAll(iconSet, iconsToRemove)
    /\ pc' = "export"
    /\ UNCHANGED <<world, options, stack, result, idx, todo, svg, stages,
                   iconsToRemove, collections, proto, returned, log>>

\* The export stored without the test for icons.
StoreCollectionAlways ==
    /\ pc = "export"
    /\ options.call = "collections"
    /\ LET dir == result[idx]
           exported == Export(iconSet)
           key == CollectionKey(options.source, dir, options.prefix)
           stored == SetProperty(Object(collections, proto), key, exported)
       IN  /\ collections' = stored.own
           /\ proto' = stored.proto
           /\ log' = Append(log, [dir |-> dir, key |-> key, exported |-> exported])
    /\ idx' = idx + 1
    /\ pc' = "loop"
    /\ UNCHANGED <<world, options, stack, result, iconSet, todo, svg, stages,
                   iconsToRemove, returned>>

\* importSvgCollections: export the set and store it under its key.
StoreCollection ==
    /\ pc = "export"
    /\ options.call = "collections"
    /\ LET dir == result[idx]
           exported == Export(iconSet)
           key == CollectionKey(options.source, dir, options.prefix)
           stored == IF DOMAIN exported.icons # {}
                         THEN SetProperty(Object(collections, proto), key, exported)
                         ELSE Object(collections, proto)
       IN  /\ collections' = stored.own
           /\ proto' = stored.proto
           /\ log' = Append(log, [dir |-> dir, key |-> key, exported |-> exported])
    /\ idx' = idx + 1
    /\ pc' = "loop"
    /\ UNCHANGED <<world, options, stack, result, iconSet, todo, svg, stages,
                   iconsToRemove, returned>>

\* importSvgCollections: return collections.
ReturnCollections ==
    /\ pc = "loop"
    /\ idx > Len(result)
    /\ pc' = "done"
    /\ UNCHANGED <<world, options, stack, result, idx, iconSet, todo, svg,
                   stages, iconsToRemove, collections, proto, returned, log>>

\* The single call returning a record only for a set that has icons left.
ReturnCollectionNonEmpty ==
    /\ pc = "export"
    /\ options.call = "collection"
    /\ returned' = IF DOMAIN iconSet # {} THEN <<Export(iconSet)>> ELSE <<>>
    /\ log' = Append(log, [dir |-> options.source, key |-> <<>>,
                           exported |-> Export(iconSet)])
    /\ pc' = "done"
    /\ UNCHANGED <<world, options, stack, result, idx, iconSet, todo, svg,
                   stages, iconsToRemove, collections, proto>>

\* importSvgCollection: return iconSet.export().
ReturnCollection ==
    /\ pc = "export"
    /\ options.call = "collection"
    /\ returned' = <<Export(iconSet)>>
    /\ log' = Append(log, [dir |-> options.source, key |-> <<>>,
                           exported |-> Export(iconSet)])
    /\ pc' = "done"
    /\ UNCHANGED <<world, options, stack, result, idx, iconSet, todo, svg,
                   stages, iconsToRemove, collections, proto>>

Next ==
    \/ Traverse
    \/ TraverseThrows
    \/ ImportDir
    \/ ImportSource
    \/ ImportSourceThrows
    \/ ForEachIcon
    \/ CleanupSVG
    \/ ParseColors
    \/ RunSVGO
    \/ DeOptimisePaths
    \/ FromSVG
    \/ Catch
    \/ RemoveRejected
    \/ StoreCollection
    \/ ReturnCollections
    \/ ReturnCollection

Spec == Init /\ [][Next]_vars

----------------------------------------------------------------------------
(* Vocabulary of the properties *)

Range(seq) == {seq[i] : i \in 1..Len(seq)}

Parent(path) == SubSeq(path, 1, Len(path) - 1)

\* The directories reachable from d through directory entries.
RECURSIVE Reachable(_)
Reachable(d) ==
    {d} \cup UNION {Reachable(PathJoin(d, e.name)) :
                        e \in {x \in Range(world.entries[d]) : x.kind = "dir"}}

\* d directly contains a regular file whose name ends in ".svg".
Qualifies(d) ==
    \E e \in Range(world.entries[d]) : e.kind = "file" /\ EndsWith(e.name, DOT_SVG)

\* The document of the file at path.
FileDoc(path) ==
    (CHOOSE e \in Range(world.entries[Parent(path)]) :
        e.name = path[Len(path)]).doc

\* The walk has returned and the loop over svgDirs runs or has ended.
Walked == options.call = "collections" /\ pc \notin {"walk", "thrown"}

Finished == options.call = "collections" /\ pc = "done"

\* The log entries of the directories that gave at least one icon.
Kept == {i \in 1..Len(log) : DOMAIN log[i].exported.icons # {}}

\* C1: once findSvgDirectories has returned, its result lists exactly the
\* directories reachable from the root that directly hold a regular .svg
\* file, each once; whether subdirectories hold .svg files plays no part.
C1_QualifyingDirectories ==
    Walked =>
        /\ Range(result) = {d \in Reachable(options.source) : Qualifies(d)}
        /\ Cardinality(Range(result)) = Len(result)

\* A qualifying directory below a qualifying directory, below a root whose
\* only .svg files are in subdirectories.
C1_Witness ==
    /\ Walked
    /\ DirA \in Range(result)
    /\ DirA_B \in Range(result)
    /\ Root \notin Range(result)
    /\ DirAB \in Reachable(Root) /\ DirAB \notin Range(result)

\* The key the claim gives a directory: its segments below the root joined
\* with "-", after the prefix and "-" when a prefix is supplied.
JoinedPath(dir) == Join(SubSeq(dir, Len(options.source) + 1, Len(dir)), DASH)

\* C2 as stated: every supplied prefix P, the empty string included, gives
\* the key P-<joined path>.
C2_KeyForEverySuppliedPrefix ==
    \A i \in 1..Len(log) :
        options.call = "collections" =>
            log[i].key = IF options.prefix = <<>> THEN JoinedPath(log[i].dir)
                         ELSE options.prefix[1] \o DASH \o JoinedPath(log[i].dir)

\* C2 amended: the key of a directory's collection is its joined path, after
\* P and "-" when a non-empty prefix P is supplied; an empty-string prefix
\* counts as none.
C2_Key ==
    \A i \in 1..Len(log) :
        options.call = "collections" =>
            log[i].key = IF options.prefix \in {<<>>, << <<>> >>}
                             THEN JoinedPath(log[i].dir)
                         ELSE options.prefix[1] \o DASH \o JoinedPath(log[i].dir)

\* root/a/b imported with prefix "ic" under the key "ic-a-b".
C2_Witness ==
    /\ Finished
    /\ options.prefix = <<IC>>
    /\ \E i \in Kept :
          /\ log[i].dir = DirA_B
          /\ log[i].key = <<"i", "c", "-", "a", "-", "b">>
          /\ log[i].key \in DOMAIN collections

\* C3: every icon of a collection comes from a file located directly in the
\* directory the collection was built from.
C3_OnlyOwnDirectory ==
    options.call = "collections" =>
        /\ \A i \in 1..Len(log) : \A n \in DOMAIN log[i].exported.icons :
              Parent(log[i].exported.icons[n].file) = log[i].dir
        /\ \A k \in DOMAIN collections :
              \E i \in Kept : log[i].key = k /\ log[i].exported = collections[k]

\* A qualifying directory and a qualifying descendant, both kept.
C3_Witness ==
    /\ Finished
    /\ \E i, j \in Kept : log[i].dir = DirA /\ log[j].dir = DirA_B

\* C4: no record of the result is without icons; each record was exported
\* from a directory that gave at least one icon.
C4_NoEmptyCollection ==
    options.call = "collections" =>
        \A k \in DOMAIN collections :
            /\ DOMAIN collections[k].icons # {}
            /\ \E i \in Kept : log[i].key = k

\* A qualifying directory whose icons were all rejected, and its key is not
\* in the result, beside a directory that was kept.
C4_Witness ==
    /\ Finished
    /\ Kept # {}
    /\ \E i \in 1..Len(log) :
          /\ i \notin Kept
          /\ log[i].key \notin DOMAIN collections

\* The icons importDirectorySync loaded for log entry i.
Loaded(i) ==
    importDirectorySync(log[i].dir,
        IF options.call = "collections" THEN FALSE ELSE IncludeSubDirs).icons

\* No stage of the try block throws for the icon.
Passes(icon) ==
    icon.fail = "none" /\ parseColors(icon.body).ok

\* C5: of the icons loaded into a set, exactly those for which a stage
\* throws are missing from the export, the others are exported processed;
\* a call throws only when a directory cannot be read.
C5_FailureRemovesOnlyThatIcon ==
    /\ \A i \in 1..Len(log) :
          /\ DOMAIN log[i].exported.icons = {n \in DOMAIN Loaded(i) : Passes(Loaded(i)[n])}
          /\ \A n \in DOMAIN log[i].exported.icons :
                log[i].exported.icons[n].body =
                    parseColors(Loaded(i)[n].body).shapes
    /\ pc = "thrown" => world.unreadable # {}

\* A set with a rejected icon has been exported with another icon in it.
C5_Witness ==
    /\ pc \in {"loop", "done"}
    /\ log # <<>>
    /\ iconsToRemove # <<>>
    /\ DOMAIN log[Len(log)].exported.icons # {}

BlackValues == {Black, Hex000, Hex000000}
WhiteValues == {White, HexFff, HexFFFFFF}
UnparseableValues == {Bogus}

\* The icons of the current set that went through the whole try block.
Committed ==
    {n \in DOMAIN iconSet : n \notin Range(todo) /\ n \notin Range(iconsToRemove)}

\* The document's drawn shapes that are left when the white ones are removed.
DrawnNotWhite(shapes) ==
    SelectSeq(shapes, LAMBDA s : ~s.clip /\ s.color \notin WhiteValues)

\* C6: no shape painted pure white is in a processed body, and an icon
\* that removing its white shapes leaves without drawn geometry is not
\* among the exported icons.
C6_NoWhiteShape ==
    /\ \A n \in Committed : \A s \in Range(iconSet[n].body) :
          s.color \notin WhiteValues
    /\ \A i \in 1..Len(log) : \A n \in DOMAIN Loaded(i) :
          (/\ \E s \in Range(Loaded(i)[n].body) : s.color \in WhiteValues
           /\ DrawnNotWhite(Loaded(i)[n].body) = <<>>)
              => n \notin DOMAIN log[i].exported.icons

\* The shapes the classification of the claim leaves of a document: shapes
\* marked for removal deleted (the content of a clipPath stays), black
\* turned to currentColor, a shape without paint given currentColor.
Canonical(shapes) ==
    LET kept == SelectSeq(shapes, LAMBDA s : s.clip \/ s.color \notin WhiteValues)
    IN  [i \in 1..Len(kept) |->
            IF kept[i].color = <<>> \/ kept[i].color \in BlackValues
                THEN [kept[i] EXCEPT !.color = CurrentColor]
                ELSE kept[i]]

\* parseColors has just run on the current icon.
AfterParseColors ==
    /\ pc \in {"svgo", "catch"}
    /\ stages # <<>>
    /\ stages[Len(stages)] = "parseColors"

\* The colour pass classified every colour value of the current icon as the
\* claim says: an unparseable value rejects the icon, none and transparent
\* stay, black becomes currentColor, white removes its shape, any other
\* value stays.
Classified ==
    AfterParseColors =>
        LET orig == iconSet[Head(todo)].body IN
        IF \E s \in Range(orig) : s.color \in UnparseableValues
            THEN pc = "catch" /\ svg[1].body = orig
        ELSE pc = "svgo" /\ svg[1].body = Canonical(orig)

ExportedValues ==
    {c \in ColorStrings \cup {Red} :
        \/ c \in {CurrentColor, None, Transparent}
        \/ /\ stringToColor(c) # NoColor
           /\ c \notin BlackValues \cup WhiteValues}

\* C8: an exported body holds only currentColor, none, transparent and
\* colours that are neither black nor white; the classification answers
\* each of its colour values with the same value, and the colour pass run
\* again on the body changes no value, removes no shape and does not
\* reject the icon.
C8_ColorPassIdempotent ==
    \A i \in 1..Len(log) : \A n \in DOMAIN log[i].exported.icons :
        LET body == log[i].exported.icons[n].body IN
        /\ \A s \in Range(body) :
              /\ s.color \in ExportedValues
              /\ ColorCallback(s.color) = [act |-> "value", value |-> s.color]
        /\ parseColors(body) = [ok |-> TRUE, shapes |-> body]

\* C9: the directories that gave at least one icon have distinct keys, and
\* the result has one key for each of them.
C9_KeysUnique ==
    Finished =>
        /\ \A i, j \in Kept : i # j => log[i].key # log[j].key
        /\ Cardinality(DOMAIN collections) = Cardinality(Kept)

\* C10: an unreadable directory below the scan root does not make the call
\* throw, and the qualifying directories outside its branch become
\* collections.
C10_UnreadableBranchOnly ==
    (options.call = "collections" /\ options.source \notin world.unreadable) =>
        /\ pc # "thrown"
        /\ pc = "done" =>
              \A d \in Reachable(options.source) :
                  (/\ Qualifies(d)
                   /\ \A u \in world.unreadable : SubSeq(d, 1, Len(u)) # u
                   /\ \E n \in DOMAIN importDirectorySync(d, FALSE).icons :
                          Passes(importDirectorySync(d, FALSE).icons[n]))
                      => \E i \in Kept : log[i].dir = d

----------------------------------------------------------------------------
(* findSvgDirectories as a function of the directory listings *)

\* The calls of traverse still to make, next one first, give this sequence
\* of qualifying directories when readdirSync answers with `entries`.
RECURSIVE traverse(_, _)
traverse(entries, pending) ==
    IF pending = <<>> THEN <<>>
    ELSE LET dir == Head(pending)
             listed == entries[dir]
         IN  (IF HasSvgFiles(listed) THEN <<dir>> ELSE <<>>)
             \o traverse(entries, Subdirs(dir, listed) \o Tail(pending))

findSvgDirectories(entries, rootDir) == traverse(entries, <<rootDir>>)

\* The same tree listed in another order: each directory's entries as they
\* are or reversed.
Relistings ==
    { [d \in DOMAIN world.entries |->
          IF d \in S THEN Reverse(world.entries[d]) ELSE world.entries[d]] :
        S \in SUBSET DOMAIN world.entries }

\* C11: the sequence findSvgDirectories returns is the same for every order
\* in which the file system lists the entries of the tree's directories.
C11_OrderIndependent ==
    Walked =>
        /\ result = findSvgDirectories(world.entries, options.source)
        /\ \A e \in Relistings : findSvgDirectories(e, options.source) = result

----------------------------------------------------------------------------
(* importSvgCollection: the returned record *)

SingleCall == options.call = "collection"

\* importDirectorySync can read every directory it has to.
SourceReadable ==
    ScannedDirs(options.source, IncludeSubDirs) \cap world.unreadable = {}

\* The icons importSvgCollection loads from source.
SourceIcons == importDirectorySync(options.source, IncludeSubDirs).icons

\* Every icon loaded from source is rejected by a stage.
AllRejected == \A n \in DOMAIN SourceIcons : ~Passes(SourceIcons[n])

\* C12: importSvgCollection on a readable source never throws and never
\* stops before it returns, and it returns one record; when every icon was
\* rejected that record is the one with prefix '' and no icons.
C12_ExhaustedCollectionReturnsEmpty ==
    (SingleCall /\ SourceReadable) =>
        /\ pc # "thrown"
        /\ pc # "done" => ENABLED Next
        /\ pc = "done" =>
              /\ Len(returned) = 1
              /\ AllRejected => returned[1] = [prefix |-> <<>>, icons |-> <<>>]

\* Two icons were loaded, both were rejected, and the call returned the
\* record without icons.
C12_Witness ==
    /\ SingleCall
    /\ pc = "done"
    /\ Len(iconsToRemove) = 2
    /\ Cardinality(DOMAIN SourceIcons) = 2
    /\ returned = <<[prefix |-> <<>>, icons |-> <<>>]>>

\* includeSubDirs is omitted or true.
FoldsSubDirs == options.includeSubDirs # <<FALSE>>

\* path lies below dir, at any depth.
Under(path, dir) == Len(path) > Len(dir) /\ SubSeq(path, 1, Len(dir)) = dir

\* The file at path is one the call has to cover.
InScope(path) ==
    IF FoldsSubDirs THEN Under(path, options.source)
    ELSE Parent(path) = options.source

\* The regular .svg files of the tree.
SvgFiles ==
    UNION { {PathJoin(d, e.name) :
                e \in {x \in Range(world.entries[d]) :
                          isFile(x) /\ EndsWith(x.name, DOT_SVG)}} :
            d \in Reachable(options.source) }

\* The file at path loads as SVG and no stage throws for it.
Commits(path) ==
    /\ FileDoc(path).parse
    /\ Passes([body |-> FileDoc(path).shapes, fail |-> FileDoc(path).fail])

\* No other file the call covers has the file name of path.
NameUnique(path) ==
    \A q \in SvgFiles : (InScope(q) /\ q # path) => q[Len(q)] # path[Len(path)]

\* C13 as stated: importSvgCollection returns exactly one record and fills
\* no collections map; the record holds the icon of every .svg file the
\* call covers (any file below source when includeSubDirs is omitted or
\* true, only the files directly in source when it is false) and no other
\* icon.
C13_EveryFileAtEveryDepth ==
    (SingleCall /\ pc = "done") =>
        /\ Len(returned) = 1
        /\ collections = <<>>
        /\ LET icons == returned[1].icons IN
           /\ \A n \in DOMAIN icons :
                 /\ icons[n].file \in SvgFiles
                 /\ InScope(icons[n].file)
                 /\ IconName(icons[n].file[Len(icons[n].file)]) = n
           /\ \A p \in SvgFiles :
                 (InScope(p) /\ Commits(p)) =>
                     /\ IconName(p[Len(p)]) \in DOMAIN icons
                     /\ icons[IconName(p[Len(p)])].file = p

\* C13 amended: as stated, for the covered files whose name no other
\* covered file has; the covered files of one name give at most one icon,
\* under that name.
C13_FlatCollection ==
    (SingleCall /\ pc = "done") =>
        /\ Len(returned) = 1
        /\ collections = <<>>
        /\ LET icons == returned[1].icons IN
           /\ \A n \in DOMAIN icons :
                 /\ icons[n].file \in SvgFiles
                 /\ InScope(icons[n].file)
                 /\ IconName(icons[n].file[Len(icons[n].file)]) = n
           /\ \A p \in SvgFiles :
                 (InScope(p) /\ Commits(p) /\ NameUnique(p)) =>
                     /\ IconName(p[Len(p)]) \in DOMAIN icons
                     /\ icons[IconName(p[Len(p)])].file = p

\* includeSubDirs omitted: the one record holds the icon of root/a/b/x.svg
\* beside the icon of a file directly in the root.
C13_Witness ==
    /\ SingleCall
    /\ pc = "done"
    /\ options.includeSubDirs = <<>>
    /\ Len(returned) = 1
    /\ \E n, m \in DOMAIN returned[1].icons :
          /\ Parent(returned[1].icons[n].file) = DirA_B
          /\ Parent(returned[1].icons[m].file) = Root

----------------------------------------------------------------------------
(* processIconSet: the stages of one icon *)

StageOrder ==
    <<"cleanupSVG", "parseColors", "runSVGO", "deOptimisePaths", "fromSVG">>

IsPrefix(s, t) == Len(s) <= Len(t) /\ SubSeq(t, 1, Len(s)) = s

\* The number of stages that have run when the call is at pc.
StagesBefore(at) ==
    CASE at = "cleanup" -> 0
      [] at = "colors" -> 1
      [] at = "svgo" -> 2
      [] at = "paths" -> 3
      [] at = "store" -> 4

InTryBlock == pc \in {"cleanup", "colors", "svgo", "paths", "store"}

\* The stages of the current icon ran in the order of StageOrder, each at
\* most once; rejected icons are marked once, are not visited again and are
\* not in an exported record.
StagesInOrder ==
    /\ IsPrefix(stages, StageOrder)
    /\ InTryBlock => Len(stages) = StagesBefore(pc)
    /\ pc = "catch" => Len(stages) \in 1..4
    /\ Cardinality(Range(todo)) = Len(todo)
    /\ Cardinality(Range(iconsToRemove)) = Len(iconsToRemove)
    /\ Range(iconsToRemove) \cap Range(todo) = {}
    /\ (pc \in {"loop", "done"} /\ log # <<>>) =>
           Range(iconsToRemove) \cap DOMAIN log[Len(log)].exported.icons = {}
    /\ pc = "done" /\ SingleCall =>
           Range(iconsToRemove) \cap DOMAIN returned[1].icons = {}

\* A step of processIconSet changes the icon set only by writing the current
\* icon back after its four stages, or by removing the rejected icons after
\* the last icon; a failed stage ends with the icon marked as rejected.
StepsOfIcon ==
    /\ (InTryBlock \/ pc \in {"each", "catch"}) =>
          \/ iconSet' = iconSet
          \/ /\ pc = "store"
             /\ stages = SubSeq(StageOrder, 1, 4)
             /\ stages' = StageOrder
             /\ iconSet' = [iconSet EXCEPT ![Head(todo)] = svg[1]]
          \/ /\ pc = "each"
             /\ todo = <<>>
             /\ DOMAIN iconSet' = DOMAIN iconSet \ Range(iconsToRemove)
    /\ pc = "catch" =>
          /\ iconsToRemove' = Append(iconsToRemove, Head(todo))
          /\ todo' = Tail(todo)
          /\ iconSet' = iconSet
    /\ (InTryBlock /\ pc' \notin {"catch", "each"}) =>
          /\ Len(stages') = StagesBefore(pc')
          /\ iconsToRemove' = iconsToRemove

\* C14: each icon goes through cleanupSVG, parseColors, runSVGO,
\* deOptimisePaths and fromSVG in this order, no stage twice; it is written
\* back to the set only after the four stages succeeded; a failure at a
\* stage marks the icon as rejected, and a rejected icon is in no exported
\* record.
C14_PerIconStateMachine == []StagesInOrder /\ [][StepsOfIcon]_vars

\* An icon has just been written back after all its stages, in a set in
\* which an earlier icon was rejected.
C14_Witness ==
    /\ pc = "each"
    /\ stages = StageOrder
    /\ iconsToRemove # <<>>
    /\ todo = <<>>

----------------------------------------------------------------------------
(* importSvgCollections as a function of the tree and the prefix *)

\* processIconSet: the icons left in a set, each as its stages leave it.
processIconSet(icons) ==
    [n \in {m \in DOMAIN icons :
                toSVG(icons, m) = <<>> \/ Passes(icons[m])} |->
        IF toSVG(icons, n) = <<>> THEN icons[n]
        ELSE deOptimisePaths(runSVGO(
                 [cleanupSVG(icons[n]) EXCEPT
                     !.body = parseColors(icons[n].body).shapes]))]

\* The loop over svgDirs: the collections after the directories dirs, from
\* the collections acc.
RECURSIVE ImportDirs(_, _, _, _)
ImportDirs(dirs, source, prefix, acc) ==
    IF dirs = <<>> THEN acc
    ELSE LET dir == Head(dirs)
             exported == Export(processIconSet(importDirectorySync(dir, FALSE).icons))
             key == CollectionKey(source, dir, prefix)
         IN  ImportDirs(Tail(dirs), source, prefix,
                        IF DOMAIN exported.icons # {}
                            THEN SetProperty(acc, key, exported)
                            ELSE acc)

\* The object importSvgCollections returns.
importSvgCollections(source, prefix) ==
    ImportDirs(findSvgDirectories(world.entries, source), source, prefix,
               Object(<<>>, <<>>))

\* C15: the result of a call with a non-empty prefix P is the result of the
\* call without prefix on the same tree with every key k renamed to P-k:
\* the same records under the renamed keys, the prefix field of each record
\* the empty string and not P.
C15_PrefixRenamesKeysOnly ==
    Finished =>
        /\ Object(collections, proto) =
              importSvgCollections(options.source, options.prefix)
        /\ Truthy(options.prefix) =>
              LET P == options.prefix[1]
                  without == importSvgCollections(options.source, <<>>).own
              IN  /\ DOMAIN collections = {P \o DASH \o k : k \in DOMAIN without}
                  /\ \A k \in DOMAIN without :
                        collections[P \o DASH \o k] = without[k]
                  /\ \A k \in DOMAIN collections :
                        /\ collections[k].prefix = <<>>
                        /\ collections[k].prefix # P

----------------------------------------------------------------------------
(* The collection of the scan root *)

\* The log entries of the scan root that gave at least one icon.
RootKept == {i \in Kept : log[i].dir = options.source}

\* C16 as stated: the root's collection has the key "" when no prefix is
\* supplied and P followed by "-" for every supplied prefix P, the empty
\* string included.
C16_RootKeyForEverySuppliedPrefix ==
    options.call = "collections" =>
        \A i \in RootKept :
            /\ log[i].key = IF options.prefix = <<>> THEN <<>>
                            ELSE options.prefix[1] \o DASH
            /\ log[i].key \in DOMAIN collections

\* C16 amended: a scan root that gave at least one icon is a collection of
\* the result; its key is "" when no prefix or the empty string is supplied
\* and P followed by "-", never P alone, for a non-empty prefix P.
C16_RootKey ==
    options.call = "collections" =>
        \A i \in RootKept :
            /\ Qualifies(options.source)
            /\ log[i].key = IF Truthy(options.prefix)
                                THEN options.prefix[1] \o DASH
                            ELSE <<>>
            /\ Truthy(options.prefix) => log[i].key # options.prefix[1]
            /\ log[i].key \in DOMAIN collections
            /\ Finished => collections[log[i].key] = log[i].exported

\* A call with prefix "ic" returned the root's collection under "ic-"
\* beside the collection of a subdirectory.
C16_Witness ==
    /\ Finished
    /\ options.prefix = <<IC>>
    /\ \E i \in RootKept :
          /\ log[i].key = <<"i", "c", "-">>
          /\ collections[log[i].key] = log[i].exported
    /\ Cardinality(DOMAIN collections) > 1

====
